---- MODULE Spec2Model ----
(***************************************************************************)
(* A model of the ascii_graphics crate: the Screen struct of               *)
(* src/screen.rs (a width x height buffer of chars, the fill and stroke    *)
(* settings, the update callback), its drawing methods, its Index,         *)
(* IndexMut and Shl implementations and its animation loop, and the        *)
(* Settings struct of src/border.rs.                                       *)
(*                                                                         *)
(* A u32 is held as its 32-bit pattern read as a signed integer: the       *)
(* values 0 .. 2^31-1 are themselves, and a subtraction that wraps below   *)
(* zero in a build without overflow checks gives the negative number that  *)
(* has the same bits as the wrapped u32 (a - b stands for 2^32 + a - b).   *)
(* U32Lt is the unsigned comparison on that representation.                *)
(*                                                                         *)
(* A panic ends the program: panicked is set and no action is enabled      *)
(* after it.  The buffer keeps the writes made before the panic.           *)
(***************************************************************************)
EXTENDS Integers, Sequences, FiniteSets, TLC

VARIABLES
    width,            \* Screen.width
    height,           \* Screen.height
    buffer,           \* Screen.buffer, row-major, as a sequence (index + 1)
    fill_value,       \* Screen.fill_value
    fill,             \* Screen.fill
    stroke,           \* Screen.stroke
    stroke_value,     \* Screen.stroke_value
    update_function,  \* Screen.update_function: "None" or "Some"
    overflow_checks,  \* the build: TRUE panics on u32 overflow, FALSE wraps
    panicked,         \* a panic has unwound the program
    last,             \* the last call: its name, its arguments, the buffer before it
    sets,             \* number of IndexMut writes made by the caller so far
    pc,               \* position in Screen::run
    count,            \* the local `count` of Screen::run
    trace             \* what run has done so far: callback invocations and prints

vars == <<width, height, buffer, fill_value, fill, stroke, stroke_value,
          update_function, overflow_checks, panicked, last, sets, pc, count, trace>>

config == <<width, height, fill_value, fill, stroke, stroke_value,
            update_function, overflow_checks>>

runvars == <<pc, count, trace>>

----------------------------------------------------------------------------
(* Bounds of the model *)

MaxW == 3
MaxH == 3
MaxSets == 2
MaxMarks == 1
MaxLen == 4
MaxCanvas == 4
MaxCircle == 5
MaxRadius == 2
MaxLineW == 7
MaxLineH == 3
MaxShlW == 4
MaxFrames == 3
MaxFps == 2

\* the characters the caller draws with; the screen is created filled with Blank
Blank == " "
Chars == {"a", "b"}

----------------------------------------------------------------------------
(* u32 arithmetic *)

\* a < b on two u32
U32Lt(a, b) == IF (a < 0) = (b < 0) THEN a < b ELSE b < 0

\* a - b on two u32 that are below 2^31: the wrapped result when a < b
Sub32(a, b) == a - b

\* the values a Rust range lo..hi yields, in order (lo wrapped: the range is empty)
Range(lo, hi) == IF U32Lt(lo, hi) THEN [k \in 1..(hi - lo) |-> lo + k - 1] ELSE <<>>

----------------------------------------------------------------------------
(* Screen::new, Index, IndexMut *)

new(w, h, default) == [k \in 1..(w * h) |-> default]

\* the bounds test of index and index_mut
OutOfBoundsFlat(x, y) == ~U32Lt(y * width + x, width * height)
OutOfBounds(x, y) == ~U32Lt(x, width) \/ ~U32Lt(y, height)

\* the position in the buffer of an in-bounds (x, y)
OffsetAlias(x, y) == y + x
Offset(x, y) == y * width + x

Ok(buf) == [buf |-> buf, panicked |-> FALSE]
Panic(buf) == [buf |-> buf, panicked |-> TRUE]

\* self[(x, y)] read: the char, or a panic
index(buf, x, y) ==
    IF OutOfBounds(x, y) THEN [ret |-> <<>>, panicked |-> TRUE]
    ELSE [ret |-> <<buf[Offset(x, y) + 1]>>, panicked |-> FALSE]

\* self[(x, y)] = v
index_mut(buf, x, y, v) ==
    IF OutOfBounds(x, y) THEN Panic(buf)
    ELSE Ok([buf EXCEPT ![Offset(x, y) + 1] = v])

\* a run of assignments self[(x, y)] = v, in order, up to the first panic
RECURSIVE Writes(_, _)
Writes(buf, ws) ==
    IF ws = <<>> THEN Ok(buf)
    ELSE LET r == index_mut(buf, ws[1][1], ws[1][2], ws[1][3])
         IN IF r.panicked THEN r ELSE Writes(r.buf, Tail(ws))

RECURSIVE Flatten(_)
Flatten(ss) == IF ss = <<>> THEN <<>> ELSE ss[1] \o Flatten(Tail(ss))

----------------------------------------------------------------------------
(* border::Settings and its two constructors *)

full_settings(corners, top, bottom, left, right) ==
    [corners |-> corners, top |-> top, left |-> left, bottom |-> bottom, right |-> right]

settings(corners, horizontal, vertical) ==
    [corners |-> corners, top |-> horizontal, left |-> vertical,
     bottom |-> horizontal, right |-> vertical]

----------------------------------------------------------------------------
(* The drawing methods, each as the buffer it leaves (or the panic it ends in) *)

\* Screen::background: every cell, column by column
background(buf, value) ==
    Writes(buf, Flatten([i \in 1..width |-> [j \in 1..height |-> <<i - 1, j - 1, value>>]]))

\* Screen::border, with the corners written before the edges
border_corners_first(buf, st) ==
    Writes(buf,
        <<  <<0, 0, st.corners>>, <<0, height - 1, st.corners>>,
            <<width - 1, 0, st.corners>>, <<width - 1, height - 1, st.corners>> >>
        \o Flatten([i \in 1..width |->
               << <<i - 1, 0, st.top>>, <<i - 1, Sub32(height, 1), st.bottom>> >>])
        \o Flatten([j \in 1..height |->
               << <<0, j - 1, st.left>>, <<Sub32(width, 1), j - 1, st.right>> >>]))

\* Screen::border: the top and bottom rows, the left and right columns, the corners
border(buf, st) ==
    Writes(buf,
        Flatten([i \in 1..width |->
               << <<i - 1, 0, st.top>>, <<i - 1, Sub32(height, 1), st.bottom>> >>])
        \o Flatten([j \in 1..height |->
               << <<0, j - 1, st.left>>, <<Sub32(width, 1), j - 1, st.right>> >>])
        \o << <<0, 0, st.corners>>, <<0, Sub32(height, 1), st.corners>>,
              <<Sub32(width, 1), 0, st.corners>>, <<Sub32(width, 1), Sub32(height, 1), st.corners>> >>)

Min(a, b) == IF a <= b THEN a ELSE b
Max(a, b) == IF a >= b THEN a ELSE b

\* Screen::text that writes every char of value, whatever the width
text_untruncated(buf, value, x, y) ==
    Writes(buf, [k \in 1..Len(value) |-> <<x + k - 1, y, value[k]>>])

\* Screen::text: one char per column of x..width, until value runs out
text(buf, value, x, y) ==
    LET cols == Range(x, width)
    IN Writes(buf, [k \in 1..Min(Len(cols), Len(value)) |-> <<cols[k], y, value[k]>>])

\* the fill pass of Screen::rect
rect_fill(buf, x, y, half_w, half_h) ==
    IF overflow_checks /\ x < half_w THEN Panic(buf)
    ELSE LET is == Range(Sub32(x, half_w), x + half_w + 1)
         IN IF is = <<>> THEN Ok(buf)
            ELSE IF overflow_checks /\ y < half_h THEN Panic(buf)
            ELSE LET js == Range(Sub32(y, half_h), y + half_h + 1)
                 IN Writes(buf, Flatten([a \in 1..Len(is) |->
                        [b \in 1..Len(js) |-> <<is[a], js[b], fill_value>>]]))

\* the stroke pass of Screen::rect: the two rows, then the two columns
rect_stroke(buf, x, y, half_w, half_h) ==
    IF overflow_checks /\ x < half_w THEN Panic(buf)
    ELSE LET is == Range(Sub32(x, half_w), x + half_w + 1)
         IN IF is # <<>> /\ overflow_checks /\ y < half_h THEN Panic(buf)
            ELSE LET rows == Writes(buf, Flatten([a \in 1..Len(is) |->
                                << <<is[a], Sub32(y, half_h), stroke_value>>,
                                   <<is[a], y + half_h, stroke_value>> >>]))
                 IN IF rows.panicked THEN rows
                    ELSE IF overflow_checks /\ y < half_h THEN Panic(rows.buf)
                    ELSE LET js == Range(Sub32(y, half_h), y + half_h + 1)
                         IN Writes(rows.buf, Flatten([b \in 1..Len(js) |->
                                << <<Sub32(x, half_w), js[b], stroke_value>>,
                                   <<x + half_w, js[b], stroke_value>> >>]))

\* Screen::rect with the stroke pass before the fill pass
rect_stroke_first(buf, x, y, w, h) ==
    LET half_w == w \div 2
        half_h == h \div 2
        stroked == IF stroke THEN rect_stroke(buf, x, y, half_w, half_h) ELSE Ok(buf)
    IN IF stroked.panicked \/ ~fill THEN stroked
       ELSE rect_fill(stroked.buf, x, y, half_w, half_h)

\* Screen::rect that does nothing when the rectangle starts left of or above the screen
rect_clamped(buf, x, y, w, h) ==
    LET half_w == w \div 2
        half_h == h \div 2
        filled == IF fill THEN rect_fill(buf, x, y, half_w, half_h) ELSE Ok(buf)
    IN IF x < half_w \/ y < half_h THEN Ok(buf)
       ELSE IF filled.panicked \/ ~stroke THEN filled
       ELSE rect_stroke(filled.buf, x, y, half_w, half_h)

\* Screen::rect: the fill pass if fill is set, then the stroke pass if stroke is set
rect(buf, x, y, w, h) ==
    LET half_w == w \div 2
        half_h == h \div 2
        filled == IF fill THEN rect_fill(buf, x, y, half_w, half_h) ELSE Ok(buf)
    IN IF filled.panicked \/ ~stroke THEN filled
       ELSE rect_stroke(filled.buf, x, y, half_w, half_h)

\* what Screen::circle writes at (i, j), if anything
circle_cell(x, y, radius, i, j) ==
    LET r2 == radius * radius
        dx == i - x
        dy == j - y
        dist == dx * dx + dy * dy
    IN IF dist < r2 /\ fill THEN << <<i, j, fill_value>> >>
       ELSE IF (dist = r2 \/ dist = r2 + 1) /\ stroke THEN << <<i, j, stroke_value>> >>
       ELSE <<>>

\* Screen::circle with a ring of distance r2 only
circle_thin(buf, x, y, radius) ==
    IF overflow_checks /\ x < radius THEN Panic(buf)
    ELSE LET is == Range(Sub32(x, radius), x + radius + 1)
         IN IF is = <<>> THEN Ok(buf)
            ELSE IF overflow_checks /\ y < radius THEN Panic(buf)
            ELSE LET js == Range(Sub32(y, radius), y + radius + 1)
                     cell(i, j) ==
                         LET dist == (i - x) * (i - x) + (j - y) * (j - y)
                         IN IF dist < radius * radius /\ fill THEN << <<i, j, fill_value>> >>
                            ELSE IF dist = radius * radius /\ stroke
                                 THEN << <<i, j, stroke_value>> >>
                            ELSE <<>>
                 IN Writes(buf, Flatten([a \in 1..Len(is) |->
                        Flatten([b \in 1..Len(js) |-> cell(is[a], js[b])])]))

\* Screen::circle: every (i, j) of the bounding box, column by column
circle(buf, x, y, radius) ==
    IF overflow_checks /\ x < radius THEN Panic(buf)
    ELSE LET is == Range(Sub32(x, radius), x + radius + 1)
         IN IF is = <<>> THEN Ok(buf)
            ELSE IF overflow_checks /\ y < radius THEN Panic(buf)
            ELSE LET js == Range(Sub32(y, radius), y + radius + 1)
                 IN Writes(buf, Flatten([a \in 1..Len(is) |->
                        Flatten([b \in 1..Len(js) |-> circle_cell(x, y, radius, is[a], js[b])])]))

----------------------------------------------------------------------------
(* f32 arithmetic, for Screen::line.  An f32 is held as the integer number of
   F32Scale-ths it equals (2^-27 each): every f32 of magnitude at least 2^-4
   and below 2^4 is such a number, and so is every value line computes from
   coordinates below 16.  Below F32Exact units every integer is an f32; above,
   the f32 are the multiples of the power of two that leaves 24 bits. *)

F32Scale == 134217728
F32Exact == 16777216

Abs(n) == IF n < 0 THEN -n ELSE n
Sign(n) == IF n < 0 THEN -1 ELSE 1

\* the spacing of the f32 around a units (a >= 0)
RECURSIVE Ulp(_, _)
Ulp(a, q) == IF a \div q < F32Exact THEN q ELSE Ulp(a, 2 * q)

\* the integer nearest n / d, ties to the even one (n >= 0, d > 0)
RoundHalfEven(n, d) ==
    LET k == n \div d
        rem == n % d
    IN IF 2 * rem < d THEN k
       ELSE IF 2 * rem > d THEN k + 1
       ELSE IF k % 2 = 0 THEN k ELSE k + 1

\* the f32 nearest to m units: the result of an f32 addition whose exact sum is m
F32Round(m) ==
    LET q == Ulp(Abs(m), 1)
    IN Sign(m) * RoundHalfEven(Abs(m), q) * q

\* dy / dx in f32, for integers dy and dx # 0
F32Div(dy, dx) ==
    LET n == Abs(dy) * F32Scale
        q == Ulp(n \div Abs(dx), 1)
    IN Sign(dy) * Sign(dx) * RoundHalfEven(n, Abs(dx) * q) * q

\* y after k times y += slope
RECURSIVE Accumulate(_, _, _)
Accumulate(y, slope, k) ==
    IF k = 0 THEN y ELSE Accumulate(F32Round(y + slope), slope, k - 1)

\* y.round() as u32: half away from zero, and a negative value saturates to 0
RoundAsU32(y) == IF y < 0 THEN 0 ELSE (y + F32Scale \div 2) \div F32Scale

\* Screen::line that seeds y with the smaller row whatever the slope
line_seed_min(buf, x1, y1, x2, y2) ==
    IF ~stroke THEN Ok(buf)
    ELSE LET dx == x2 - x1
             dy == y2 - y1
             x == Min(x1, x2)
             y == Min(y1, y2) * F32Scale
             row(k) == IF dx = 0 THEN RoundAsU32(y)
                       ELSE RoundAsU32(Accumulate(y, F32Div(dy, dx), k))
         IN Writes(buf, [k \in 1..(Max(x1, x2) - x + 1) |-> <<x + k - 1, row(k - 1), stroke_value>>])

\* Screen::line: one write per column of min(x1, x2) ..= max(x1, x2).  With
\* dx = 0 the slope is an infinity or NaN (positive only for dy > 0), the
\* loop body runs once and the slope is added after the only write.
line(buf, x1, y1, x2, y2) ==
    IF ~stroke THEN Ok(buf)
    ELSE LET dx == x2 - x1
             dy == y2 - y1
             positive == IF dx = 0 THEN dy > 0 ELSE F32Div(dy, dx) > 0
             x == Min(x1, x2)
             y == (IF positive THEN Min(y1, y2) ELSE Max(y1, y2)) * F32Scale
             row(k) == IF dx = 0 THEN RoundAsU32(y)
                       ELSE RoundAsU32(Accumulate(y, F32Div(dy, dx), k))
         IN Writes(buf, [k \in 1..(Max(x1, x2) - x + 1) |-> <<x + k - 1, row(k - 1), stroke_value>>])

----------------------------------------------------------------------------
(* Shl<u32> for Screen *)

\* the swap of (x, y) and (x + value, y): a read, then an assignment from a
\* read, then an assignment
shl_swap(buf, x, y, value) ==
    LET temp == index(buf, x + value, y)
        here == index(buf, x, y)
    IN IF temp.panicked \/ here.panicked THEN Panic(buf)
       ELSE LET moved == index_mut(buf, x + value, y, here.ret[1])
            IN IF moved.panicked THEN moved
               ELSE index_mut(moved.buf, x, y, temp.ret[1])

\* the inner loop: the rows ys of column x
RECURSIVE shl_column(_, _, _, _)
shl_column(buf, x, ys, value) ==
    IF ys = <<>> THEN Ok(buf)
    ELSE LET r == shl_swap(buf, x, ys[1], value)
         IN IF r.panicked THEN r ELSE shl_column(r.buf, x, Tail(ys), value)

\* the outer loop from column x on, up to (not including) column end; a
\* wrapped end is above every column the loop reaches before it panics
RECURSIVE shl_from(_, _, _, _)
shl_from(buf, x, end, value) ==
    IF ~U32Lt(x, end) THEN Ok(buf)
    ELSE LET r == shl_column(buf, x, Range(0, height), value)
         IN IF r.panicked THEN r ELSE shl_from(r.buf, x + 1, end, value)

\* shl that moves the columns left and leaves the last ones as they were
shl_copy(buf, value) ==
    IF value > width THEN Panic(buf)
    ELSE Ok([k \in 1..Len(buf) |->
               IF (k - 1) % width < width - value THEN buf[k + value] ELSE buf[k]])

\* shl: for x in 0..self.width - value, for y in 0..self.height, swap
shl(buf, value) ==
    IF overflow_checks /\ width < value THEN Panic(buf)
    ELSE shl_from(buf, 0, Sub32(width, value), value)

----------------------------------------------------------------------------
(* The state after construction *)

NoCall == [op |-> "new", args |-> <<>>, chars |-> <<>>, pre |-> <<>>, ret |-> <<>>]

InitWith(Ws, Hs, Builds) ==
    /\ width \in Ws
    /\ height \in Hs
    /\ buffer = new(width, height, Blank)
    /\ fill = FALSE
    /\ fill_value = Blank
    /\ stroke = FALSE
    /\ stroke_value = Blank
    /\ update_function = "None"
    /\ overflow_checks \in Builds
    /\ panicked = FALSE
    /\ last = NoCall
    /\ sets = 0
    /\ pc = "idle"
    /\ count = 0
    /\ trace = <<>>

Init == InitWith(1..MaxW, 1..MaxH, BOOLEAN)

\* the caller may make a call: no panic so far, run not entered, and only
\* settings, single cells and backgrounds so far (the specifications follow
\* one drawing call, from the screens those calls lead to)
Ready ==
    /\ ~panicked
    /\ pc = "idle"
    /\ last.op \in {"new", "set", "get", "fill", "no_fill", "stroke", "no_stroke",
                   "set_update", "background"}

Call(op, args, chars, ret) ==
    last' = [op |-> op, args |-> args, chars |-> chars, pre |-> buffer, ret |-> ret]

----------------------------------------------------------------------------
(* The caller's reads and writes of single cells *)

Get(x, y) ==
    /\ Ready
    /\ LET r == index(buffer, x, y)
       IN /\ panicked' = r.panicked
          /\ Call("get", <<x, y>>, <<>>, r.ret)
    /\ UNCHANGED <<config, buffer, sets, runvars>>

SetUpTo(n, x, y, v) ==
    /\ Ready
    /\ sets < n
    /\ sets' = sets + 1
    /\ LET r == index_mut(buffer, x, y, v)
       IN /\ buffer' = r.buf
          /\ panicked' = r.panicked
          /\ Call("set", <<x, y>>, <<v>>, <<>>)
    /\ UNCHANGED <<config, runvars>>

Set(x, y, v) == SetUpTo(MaxSets, x, y, v)

\* a cell the caller marks before the drawing call under study
Mark(x, y, v) == SetUpTo(MaxMarks, x, y, v)

----------------------------------------------------------------------------
(* The settings calls *)

Fill(value) ==
    /\ Ready
    /\ fill_value' = value
    /\ fill' = TRUE
    /\ Call("fill", <<>>, <<value>>, <<>>)
    /\ UNCHANGED <<width, height, buffer, stroke, stroke_value, update_function,
                   overflow_checks, panicked, sets, runvars>>

NoFill ==
    /\ Ready
    /\ fill' = FALSE
    /\ Call("no_fill", <<>>, <<>>, <<>>)
    /\ UNCHANGED <<width, height, buffer, fill_value, stroke, stroke_value, update_function,
                   overflow_checks, panicked, sets, runvars>>

Stroke(value) ==
    /\ Ready
    /\ stroke_value' = value
    /\ stroke' = TRUE
    /\ Call("stroke", <<>>, <<value>>, <<>>)
    /\ UNCHANGED <<width, height, buffer, fill_value, fill, update_function,
                   overflow_checks, panicked, sets, runvars>>

NoStroke ==
    /\ Ready
    /\ stroke' = FALSE
    /\ Call("no_stroke", <<>>, <<>>, <<>>)
    /\ UNCHANGED <<width, height, buffer, fill_value, fill, stroke_value, update_function,
                   overflow_checks, panicked, sets, runvars>>

SetUpdate ==
    /\ Ready
    /\ update_function' = "Some"
    /\ Call("set_update", <<>>, <<>>, <<>>)
    /\ UNCHANGED <<width, height, buffer, fill_value, fill, stroke, stroke_value,
                   overflow_checks, panicked, sets, runvars>>

----------------------------------------------------------------------------
(* The drawing calls: one call, recorded in last with the buffer before it *)

Draw(op, args, chars, r) ==
    /\ Ready
    /\ buffer' = r.buf
    /\ panicked' = r.panicked
    /\ Call(op, args, chars, <<>>)
    /\ UNCHANGED <<config, sets, runvars>>

Background(value) == Draw("background", <<>>, <<value>>, background(buffer, value))

Border(st) == Draw("border", <<>>, st, border(buffer, st))

Text(value, x, y) == Draw("text", <<x, y>>, value, text(buffer, value, x, y))

Rect(x, y, w, h) == Draw("rect", <<x, y, w, h>>, <<>>, rect(buffer, x, y, w, h))

Circle(x, y, radius) == Draw("circle", <<x, y, radius>>, <<>>, circle(buffer, x, y, radius))

Line(x1, y1, x2, y2) == Draw("line", <<x1, y1, x2, y2>>, <<>>, line(buffer, x1, y1, x2, y2))

ShiftLeft(value) == Draw("shl", <<value>>, <<>>, shl(buffer, value))

----------------------------------------------------------------------------
(* Screen::run.  The callback is the caller's: it returns either bool and may
   draw on the screen (here: nothing, or a background).  print's clear of the
   terminal is taken to succeed. *)

\* what print writes: the buffer in chunks of width
Render(buf) == [r \in 1..(Len(buf) \div width) |-> SubSeq(buf, (r - 1) * width + 1, r * width)]

\* count += 1, skipping a frame
NextCountSkip(c) == c + 2
\* count += 1
NextCount(c) == c + 1

\* run(fps), up to the loop: the delay is 1000 / fps
RunStart(fps) ==
    /\ Ready
    /\ Call("run", <<fps>>, <<>>, <<>>)
    /\ panicked' = (fps = 0)
    /\ pc' = IF fps = 0 THEN pc ELSE "update"
    /\ count' = 0
    /\ UNCHANGED <<config, buffer, sets, trace>>

\* if !self.update(count) { break; }
RunUpdate ==
    /\ pc = "update"
    /\ ~panicked
    /\ count < MaxFrames
    /\ \/ /\ update_function = "None"
          /\ pc' = "done"
          /\ UNCHANGED <<buffer, trace>>
       \/ /\ update_function = "Some"
          /\ \E ret \in BOOLEAN, drawn \in {buffer} \cup {background(buffer, c).buf : c \in Chars} :
                /\ buffer' = drawn
                /\ trace' = Append(trace, [ev |-> "update", frame |-> count, ret |-> ret])
                /\ pc' = IF ret THEN "print" ELSE "done"
    /\ UNCHANGED <<config, panicked, last, sets, count>>

\* self.print(); count += 1; thread::sleep(delay);
RunPrint ==
    /\ pc = "print"
    /\ ~panicked
    /\ trace' = Append(trace, [ev |-> "print", frame |-> count, lines |-> Render(buffer)])
    /\ count' = NextCount(count)
    /\ pc' = "update"
    /\ UNCHANGED <<config, buffer, panicked, last, sets>>

----------------------------------------------------------------------------
(* The specifications: the calls of one method on the screens of some sizes,
   after the settings and the marks that matter to it *)

Texts == UNION {[1..n -> Chars] : n \in 0..MaxLen}
Styles == {full_settings(c, t, b, l, r) : c \in Chars, t \in Chars, b \in Chars, l \in Chars, r \in Chars}
              \cup {settings(c, h, v) : c \in Chars, h \in Chars, v \in Chars}
FillChar == "a"
StrokeChar == "b"

Marks == \E x \in 0..width, y \in 0..height, v \in Chars : Mark(x, y, v)

NextBorder ==
    \/ Marks
    \/ \E st \in Styles : Border(st)

SpecBorder == Init /\ [][NextBorder]_vars

NextText ==
    \/ \E value \in Chars : Background(value)
    \/ \E value \in Texts, x \in 0..width, y \in 0..height : Text(value, x, y)

SpecText == Init /\ [][NextText]_vars

Settings ==
    \/ Fill(FillChar)
    \/ NoFill
    \/ Stroke(StrokeChar)
    \/ NoStroke

InitRect == InitWith(1..MaxCanvas, 1..MaxCanvas, BOOLEAN)

NextRect ==
    \/ Settings
    \/ \E x \in 0..width, y \in 0..height, w \in 0..MaxCanvas, h \in 0..MaxCanvas : Rect(x, y, w, h)

SpecRect == InitRect /\ [][NextRect]_vars

InitCircle == InitWith(1..MaxCircle, 1..MaxCircle, BOOLEAN)

NextCircle ==
    \/ Settings
    \/ \E x \in 0..width, y \in 0..height, radius \in 0..MaxRadius : Circle(x, y, radius)

SpecCircle == InitCircle /\ [][NextCircle]_vars

InitLine == InitWith(1..MaxLineW, 1..MaxLineH, BOOLEAN)

NextLine ==
    \/ Stroke(StrokeChar)
    \/ NoStroke
    \/ \E x1 \in 0..width, y1 \in 0..height, x2 \in 0..width, y2 \in 0..height :
          Line(x1, y1, x2, y2)

SpecLine == InitLine /\ [][NextLine]_vars

InitShl == InitWith(1..MaxShlW, 1..MaxH, BOOLEAN)

NextShl ==
    \/ Marks
    \/ \E value \in 0..(width + 1) : ShiftLeft(value)

SpecShl == InitShl /\ [][NextShl]_vars

NextRun ==
    \/ SetUpdate
    \/ \E fps \in 0..MaxFps : RunStart(fps)
    \/ RunUpdate
    \/ RunPrint

SpecRun == Init /\ [][NextRun]_vars

NextIndex ==
    \E x \in 0..width, y \in 0..height :
        \/ Get(x, y)
        \/ \E v \in Chars : Set(x, y, v)

SpecIndex == Init /\ [][NextIndex]_vars

\* the coordinates and the value of the last get or set
LastX == last.args[1]
LastY == last.args[2]
LastV == last.chars[1]

(* C1: get and set panic exactly when x >= width or y >= height, without
   wrapping into another row and without clamping; in bounds they succeed
   and refer to the cell at row-major index y * width + x. *)
IndexBounds ==
    last.op \in {"get", "set"} =>
        /\ panicked <=> (LastX >= width \/ LastY >= height)
        /\ panicked => buffer = last.pre
        /\ (~panicked /\ last.op = "get") =>
              /\ last.ret = <<last.pre[LastY * width + LastX + 1]>>
              /\ buffer = last.pre
        /\ (~panicked /\ last.op = "set") =>
              buffer = [last.pre EXCEPT ![LastY * width + LastX + 1] = LastV]

\* a write one past the end of a row that is not the last row has panicked
IndexBoundsWitness ==
    /\ last.op = "set"
    /\ panicked
    /\ LastX = width
    /\ LastY + 1 < height

(* C2: after set(x, y, v), get(x, y) returns v and the get of every other
   in-bounds coordinate returns what it returned before; a later set at the
   same coordinate replaces the value. *)
SetThenGet ==
    (last.op = "set" /\ ~panicked) =>
        /\ index(buffer, LastX, LastY).ret = <<LastV>>
        /\ \A x \in 0..(width - 1), y \in 0..(height - 1) :
              <<x, y>> # <<LastX, LastY>> =>
                  index(buffer, x, y).ret = index(last.pre, x, y).ret

\* a set has replaced the value an earlier set left at the same coordinate,
\* on a screen of several rows and columns
SetThenGetWitness ==
    /\ last.op = "set"
    /\ ~panicked
    /\ width > 1
    /\ height > 1
    /\ index(last.pre, LastX, LastY).ret # <<Blank>>
    /\ index(last.pre, LastX, LastY).ret # <<LastV>>
    /\ index(buffer, LastX, LastY).ret = <<LastV>>

----------------------------------------------------------------------------
(* The cells of a buffer, as the claims name them *)

At(buf, x, y) == buf[y * width + x + 1]
Columns == 0..(width - 1)
Rows == 0..(height - 1)

IsCorner(x, y) == x \in {0, width - 1} /\ y \in {0, height - 1}
IsEdge(x, y) == x \in {0, width - 1} \/ y \in {0, height - 1}

\* border as the claim has it for every width and height: the left edge reads
\* left and the top edge reads top, also where they are the right or bottom edge
BorderAsClaimed ==
    last.op = "border" =>
        /\ ~panicked
        /\ \A x \in Columns, y \in Rows :
              /\ IsCorner(x, y) => At(buffer, x, y) = last.chars.corners
              /\ (~IsCorner(x, y) /\ y = 0) => At(buffer, x, y) = last.chars.top
              /\ (~IsCorner(x, y) /\ y = height - 1) => At(buffer, x, y) = last.chars.bottom
              /\ (y \in 1..(height - 2) /\ x = 0) => At(buffer, x, y) = last.chars.left
              /\ (y \in 1..(height - 2) /\ x = width - 1) => At(buffer, x, y) = last.chars.right
              /\ ~IsEdge(x, y) => At(buffer, x, y) = At(last.pre, x, y)

(* C3, amended: after border(style) the corners equal style.corners, the other
   cells of row height-1 equal style.bottom and of column width-1 (interior
   rows) style.right; the other cells of row 0 equal style.top when height >= 2
   (style.bottom on a single row) and of column 0 style.left when width >= 2
   (style.right on a single column); the cells off the edges are unchanged. *)
BorderOutline ==
    last.op = "border" =>
        /\ ~panicked
        /\ \A x \in Columns, y \in Rows :
              /\ IsCorner(x, y) => At(buffer, x, y) = last.chars.corners
              /\ (~IsCorner(x, y) /\ y = 0) =>
                    At(buffer, x, y) = IF height >= 2 THEN last.chars.top ELSE last.chars.bottom
              /\ (~IsCorner(x, y) /\ y = height - 1) => At(buffer, x, y) = last.chars.bottom
              /\ (y \in 1..(height - 2) /\ x = 0) =>
                    At(buffer, x, y) = IF width >= 2 THEN last.chars.left ELSE last.chars.right
              /\ (y \in 1..(height - 2) /\ x = width - 1) => At(buffer, x, y) = last.chars.right
              /\ ~IsEdge(x, y) => At(buffer, x, y) = At(last.pre, x, y)

\* a border of distinct characters drawn around a marked interior cell
BorderOutlineWitness ==
    /\ last.op = "border"
    /\ ~panicked
    /\ width >= 3
    /\ height >= 3
    /\ last.chars.corners # last.chars.top
    /\ last.chars.corners # last.chars.left
    /\ last.chars.top # last.chars.bottom
    /\ last.chars.left # last.chars.right
    /\ At(last.pre, 1, 1) # Blank
    /\ At(buffer, 1, 1) = At(last.pre, 1, 1)
    /\ At(buffer, 0, 0) = last.chars.corners

(* C4: text(value, x, y) with x < width and y < height does not panic, writes
   the first min(len(value), width - x) chars of value into row y from column
   x on, and leaves every other cell, of this and of every other row, as it
   was. *)
TextTruncates ==
    (last.op = "text" /\ LastX < width /\ LastY < height) =>
        /\ ~panicked
        /\ LET n == Min(Len(last.chars), width - LastX)
           IN \A x \in Columns, y \in Rows :
                 At(buffer, x, y) =
                     IF y = LastY /\ x >= LastX /\ x < LastX + n
                     THEN last.chars[x - LastX + 1]
                     ELSE At(last.pre, x, y)

\* a text longer than what is left of its row, written over a background, with
\* a row below it
TextTruncatesWitness ==
    /\ last.op = "text"
    /\ ~panicked
    /\ LastX > 0
    /\ LastX < width
    /\ LastY + 1 < height
    /\ Len(last.chars) > width - LastX
    /\ At(last.pre, 0, LastY + 1) # Blank
    /\ At(buffer, width - 1, LastY) = last.chars[width - LastX]

----------------------------------------------------------------------------
(* rect *)

RectX == last.args[1]
RectY == last.args[2]
HalfW == last.args[3] \div 2
HalfH == last.args[4] \div 2

InRect(x, y) ==
    /\ x >= RectX - HalfW
    /\ x <= RectX + HalfW
    /\ y >= RectY - HalfH
    /\ y <= RectY + HalfH

OnRectEdge(x, y) ==
    /\ InRect(x, y)
    /\ \/ x \in {RectX - HalfW, RectX + HalfW}
       \/ y \in {RectY - HalfH, RectY + HalfH}

RectInside ==
    /\ RectX >= HalfW
    /\ RectY >= HalfH
    /\ RectX + HalfW < width
    /\ RectY + HalfH < height

(* C5: rect whose region lies inside the screen: the edge of the region holds
   the stroke char if stroke is set, else the fill char if fill is set, else
   what it held; the inside of the region holds the fill char if fill is set,
   else what it held; every cell outside the region is unchanged. *)
RectRegion ==
    (last.op = "rect" /\ RectInside) =>
        /\ ~panicked
        /\ \A x \in Columns, y \in Rows :
              At(buffer, x, y) =
                  IF OnRectEdge(x, y) /\ stroke THEN stroke_value
                  ELSE IF InRect(x, y) /\ fill THEN fill_value
                  ELSE At(last.pre, x, y)

\* a rectangle with an inside, drawn with fill and stroke, with cells around it
RectRegionWitness ==
    /\ last.op = "rect"
    /\ ~panicked
    /\ RectInside
    /\ fill
    /\ stroke
    /\ fill_value # stroke_value
    /\ HalfW >= 1
    /\ HalfH >= 1
    /\ RectX + HalfW + 1 < width
    /\ RectY + HalfH + 1 < height
    /\ At(buffer, RectX, RectY) = fill_value
    /\ At(buffer, RectX - HalfW, RectY) = stroke_value

\* rect as the claim has it: a panic whenever the region starts left of or
\* above the screen
RectPanicsAsClaimed ==
    (last.op = "rect" /\ (RectX < HalfW \/ RectY < HalfH)) => panicked

(* C10, amended: rect with cx < w/2 or cy < h/2 draws nothing and never clamps:
   in a build with overflow checks it panics exactly when fill or stroke is
   set; in a build without them it panics exactly when stroke is set and only
   one of cx < w/2, cy < h/2 holds; otherwise it returns with the buffer as it
   was. *)
RectOutside ==
    (last.op = "rect" /\ (RectX < HalfW \/ RectY < HalfH)) =>
        /\ buffer = last.pre
        /\ overflow_checks => (panicked <=> (fill \/ stroke))
        /\ ~overflow_checks =>
              (panicked <=> (stroke /\ ~(RectX < HalfW /\ RectY < HalfH)))

\* a filled rectangle that starts left of the screen has panicked
RectOutsideWitness ==
    /\ last.op = "rect"
    /\ RectX < HalfW
    /\ RectY >= HalfH
    /\ RectY + HalfH < height
    /\ fill
    /\ ~stroke
    /\ overflow_checks
    /\ panicked

----------------------------------------------------------------------------
(* circle *)

CircleX == last.args[1]
CircleY == last.args[2]
Radius == last.args[3]

Dist(i, j) == (i - CircleX) * (i - CircleX) + (j - CircleY) * (j - CircleY)

InBox(i, j) ==
    /\ i >= CircleX - Radius
    /\ i <= CircleX + Radius
    /\ j >= CircleY - Radius
    /\ j <= CircleY + Radius

CircleInside ==
    /\ CircleX >= Radius
    /\ CircleY >= Radius
    /\ CircleX + Radius < width
    /\ CircleY + Radius < height

\* circle as the claim has it: the ring is every cell at distance r^2 or
\* r^2 + 1, and every cell outside the bounding box is unchanged
CircleAsClaimed ==
    (last.op = "circle" /\ CircleInside) =>
        /\ ~panicked
        /\ \A i \in Columns, j \in Rows :
              /\ Dist(i, j) < Radius * Radius =>
                    At(buffer, i, j) = IF fill THEN fill_value ELSE At(last.pre, i, j)
              /\ Dist(i, j) \in {Radius * Radius, Radius * Radius + 1} =>
                    At(buffer, i, j) = IF stroke THEN stroke_value ELSE At(last.pre, i, j)
              /\ (Dist(i, j) > Radius * Radius + 1 \/ ~InBox(i, j)) =>
                    At(buffer, i, j) = At(last.pre, i, j)

(* C6, amended: circle whose bounding box lies inside the screen: a cell with
   d < r^2 holds the fill char if fill is set; a cell of the bounding box with
   d = r^2 or d = r^2 + 1 holds the stroke char if stroke is set; every other
   cell is unchanged, among them the four cells at d = 1 around a circle of
   radius 0, which are outside its bounding box. *)
CircleRing ==
    (last.op = "circle" /\ CircleInside) =>
        /\ ~panicked
        /\ \A i \in Columns, j \in Rows :
              At(buffer, i, j) =
                  IF Dist(i, j) < Radius * Radius /\ fill THEN fill_value
                  ELSE IF /\ Dist(i, j) \in {Radius * Radius, Radius * Radius + 1}
                          /\ InBox(i, j)
                          /\ stroke
                       THEN stroke_value
                  ELSE At(last.pre, i, j)

\* a circle of radius 2 drawn with fill and stroke: inside, both ring
\* distances, and a corner of the box that stays as it was
CircleRingWitness ==
    /\ last.op = "circle"
    /\ ~panicked
    /\ CircleInside
    /\ Radius = 2
    /\ fill
    /\ stroke
    /\ fill_value # stroke_value
    /\ At(buffer, CircleX + 1, CircleY) = fill_value
    /\ At(buffer, CircleX + 2, CircleY) = stroke_value
    /\ At(buffer, CircleX + 2, CircleY + 1) = stroke_value
    /\ At(buffer, CircleX + 2, CircleY + 2) = Blank

----------------------------------------------------------------------------
(* line *)

LineInside ==
    /\ last.args[1] < width
    /\ last.args[3] < width
    /\ last.args[2] < height
    /\ last.args[4] < height

\* the endpoint with the smaller x comes first (the first one when both are equal)
LeftX == Min(last.args[1], last.args[3])
RightX == Max(last.args[1], last.args[3])
LeftY == IF last.args[1] <= last.args[3] THEN last.args[2] ELSE last.args[4]
RightY == IF last.args[1] <= last.args[3] THEN last.args[4] ELSE last.args[2]
LineDx == RightX - LeftX
LineDy == RightY - LeftY

\* LeftY + k * LineDy / LineDx, rounded half away from zero
ExactRow(k) ==
    IF LineDx = 0 THEN LeftY
    ELSE (2 * (LeftY * LineDx + k * LineDy) + LineDx) \div (2 * LineDx)

\* r is an integer nearest to LeftY + k * LineDy / LineDx
NearestRow(r, k) == Abs(2 * (r * LineDx - LeftY * LineDx - k * LineDy)) <= LineDx

\* the rows of column c that the call has changed
Changed(c) == {r \in Rows : At(buffer, c, r) # At(last.pre, c, r)}

\* line as the claim has it: the row of the k-th column is the exact value of
\* start + k * dy / dx, rounded
LineAsClaimed ==
    last.op = "line" =>
        /\ ~stroke => (~panicked /\ buffer = last.pre)
        /\ (stroke /\ LineInside) =>
              /\ ~panicked
              /\ \A c \in Columns :
                    IF c >= LeftX /\ c <= RightX
                    THEN /\ Changed(c) = {ExactRow(c - LeftX)}
                         /\ At(buffer, c, ExactRow(c - LeftX)) = stroke_value
                    ELSE Changed(c) = {}

(* C7, amended: line with stroke set and both endpoints inside the screen
   writes the stroke char to exactly one cell of each column of
   min(x1, x2) ..= max(x1, x2) and to no other cell; the first column's cell is
   in the row of the endpoint with that x; the row of the k-th column is an
   integer nearest to start + k * dy / dx (where that value lies halfway between
   two rows, either may be the one written); the rows do not decrease across
   the columns when the slope is positive and do not increase when it is
   negative.  With stroke not set the call changes nothing. *)
LineColumns ==
    last.op = "line" =>
        /\ ~stroke => (~panicked /\ buffer = last.pre)
        /\ (stroke /\ LineInside) =>
              /\ ~panicked
              /\ \A c \in Columns :
                    IF c >= LeftX /\ c <= RightX
                    THEN /\ Cardinality(Changed(c)) = 1
                         /\ \A r \in Changed(c) :
                               /\ At(buffer, c, r) = stroke_value
                               /\ NearestRow(r, c - LeftX)
                               /\ c = LeftX => r = LeftY
                               /\ \A q \in (IF c < RightX THEN Changed(c + 1) ELSE {}) :
                                     /\ LineDy > 0 => r <= q
                                     /\ LineDy < 0 => r >= q
                    ELSE Changed(c) = {}

\* a falling line over seven columns whose middle column lies halfway between
\* two rows, written to the other row than rounding half away from zero gives
LineColumnsWitness ==
    /\ last.op = "line"
    /\ stroke
    /\ ~panicked
    /\ LineInside
    /\ LineDx = 6
    /\ LineDy = -1
    /\ Changed(LeftX) = {LeftY}
    /\ Changed(LeftX + 3) = {LeftY - 1}
    /\ ExactRow(3) = LeftY
    /\ Changed(RightX) = {RightY}

----------------------------------------------------------------------------
(* shl *)

Shift == last.args[1]

\* shl as the claim has it: the last n columns of each row keep what they held
ShlAsClaimed ==
    (last.op = "shl" /\ Shift > 0 /\ Shift < width) =>
        /\ ~panicked
        /\ \A x \in Columns, y \in Rows :
              At(buffer, x, y) =
                  IF x < width - Shift THEN At(last.pre, x + Shift, y) ELSE At(last.pre, x, y)

(* C8, amended: after screen << n with 0 < n < width, in every row and
   independently of the other rows, each column x < width - n holds what column
   x + n held before, and each column x >= width - n holds what column x mod n
   held before: what is shifted out on the left comes back in on the right. *)
ShlWraps ==
    (last.op = "shl" /\ Shift > 0 /\ Shift < width) =>
        /\ ~panicked
        /\ \A x \in Columns, y \in Rows :
              At(buffer, x, y) =
                  IF x < width - Shift
                  THEN At(last.pre, x + Shift, y)
                  ELSE At(last.pre, x % Shift, y)

\* a mark in the first column has come back in at the right, in its own row
ShlWrapsWitness ==
    /\ last.op = "shl"
    /\ ~panicked
    /\ Shift > 0
    /\ Shift < width
    /\ height > 1
    /\ \E y \in Rows :
          /\ At(last.pre, 0, y) # Blank
          /\ At(buffer, 0, y) = Blank
          /\ At(buffer, width - 1, y) = At(last.pre, 0, y)

----------------------------------------------------------------------------
(* run *)

Updates == SelectSeq(trace, LAMBDA e : e.ev = "update")
Prints == SelectSeq(trace, LAMBDA e : e.ev = "print")

(* C9: run(fps) with fps >= 1 and a callback set invokes the callback with the
   frames 0, 1, 2, ... in order; prints once after each invocation that
   returned true, before the next invocation; and stops at the first
   invocation that returns false, with no print and no invocation after it: it
   has then made k + 1 invocations and k prints, k being that frame.  It stops
   in no other way. *)
RunFrames ==
    (last.op = "run" /\ update_function = "Some" /\ ~panicked) =>
        /\ \A i \in 1..Len(Updates) : Updates[i].frame = i - 1
        /\ \A i \in 1..Len(Prints) : Prints[i].frame = i - 1
        /\ \A i \in 1..Len(trace) :
              /\ (trace[i].ev = "update" /\ trace[i].ret) =>
                    IF i < Len(trace) THEN trace[i + 1].ev = "print" ELSE pc = "print"
              /\ (trace[i].ev = "update" /\ ~trace[i].ret) =>
                    (i = Len(trace) /\ pc = "done")
              /\ trace[i].ev = "print" =>
                    /\ i > 1
                    /\ trace[i - 1].ev = "update"
                    /\ trace[i - 1].ret
                    /\ trace[i - 1].frame = trace[i].frame
                    /\ IF i < Len(trace) THEN trace[i + 1].ev = "update" ELSE pc = "update"
        /\ pc = "done" =>
              /\ Len(trace) > 0
              /\ trace[Len(trace)].ev = "update"
              /\ ~trace[Len(trace)].ret
              /\ Len(Updates) = trace[Len(trace)].frame + 1
              /\ Len(Prints) = trace[Len(trace)].frame
        /\ pc = "update" => Len(Prints) = Len(Updates)
        /\ pc = "update" => count = Len(Updates)

\* the callback has returned false at frame 2, after two prints
RunFramesWitness ==
    /\ last.op = "run"
    /\ update_function = "Some"
    /\ pc = "done"
    /\ Len(Updates) = 3
    /\ Len(Prints) = 2
    /\ Updates[3].frame = 2
    /\ ~Updates[3].ret

====
